---- MODULE Spec2Model ----
(***************************************************************************)
(* Model of custom_components/airtouch/climate.py: the AirTouch climate    *)
(* platform.  Two adapters (AcClimateEntity, ZoneClimateEntity) present    *)
(* vendor (pyairtouch) air conditioners and zones as climate entities, and *)
(* async_setup_entry discovers them.                                       *)
(*                                                                         *)
(* Vendor enum members are modelled by their names ("OFF_AWAY", "AUTO"),   *)
(* host platform constants by their string values ("heat_cool", "away").   *)
(* Python dicts are functions; a lookup of a key outside DOMAIN is the     *)
(* KeyError the code raises.                                               *)
(***************************************************************************)
EXTENDS Integers, Sequences, FiniteSets, TLC

VARIABLES
    ac_power_state,    \* airtouch_ac.power_state
    ac_mode,           \* airtouch_ac.mode
    ac_fan_speed,      \* airtouch_ac.fan_speed
    supported_modes,   \* airtouch_ac.supported_modes (fixed by the hardware)
    attr_hvac_modes,   \* AcClimateEntity._attr_hvac_modes
    zone_power_state,  \* airtouch_zone.power_state
    ac_subscribers,    \* callbacks registered on the AC's state notifications
    attached,          \* the zone entity is attached to the host platform
    update_scheduled,  \* the zone entity has asked the host to republish it
    op,                \* the handler that ran last
    arg,               \* its argument
    result,            \* "ok", or the error it raised
    calls,             \* the vendor setter calls it issued, in order
    api_objects,       \* hass.data[DOMAIN][entry_id]
    add_calls          \* the lists handed to async_add_devices, in order

acVars   == <<ac_power_state, ac_mode, ac_fan_speed>>
cfgVars  == <<supported_modes, attr_hvac_modes>>
lifeVars == <<ac_subscribers, attached, update_scheduled>>
discVars == <<api_objects, add_calls>>
vars == <<ac_power_state, ac_mode, ac_fan_speed, supported_modes,
          attr_hvac_modes, zone_power_state, ac_subscribers, attached,
          update_scheduled, op, arg, result, calls, api_objects, add_calls>>

Range(f) == {f[k] : k \in DOMAIN f}

\* {value: key for key, value in table.items()}
Invert(f) == [v \in Range(f) |-> CHOOSE k \in DOMAIN f : f[k] = v]

-----------------------------------------------------------------------------
(* Vendor and host vocabularies *)

AcPowerStates == {"OFF", "ON", "OFF_AWAY", "ON_AWAY", "SLEEP"}
AcModes == {"AUTO", "HEAT", "DRY", "FAN", "COOL", "AUTO_HEAT", "AUTO_COOL"}
AcFanSpeeds == {"AUTO", "QUIET", "LOW", "MEDIUM", "HIGH", "POWERFUL", "TURBO",
                "INTELLIGENT_AUTO"}
ZonePowerStates == {"OFF", "ON", "TURBO"}

\* climate.HVACMode
HVACModes == {"off", "heat", "cool", "heat_cool", "auto", "dry", "fan_only"}

-----------------------------------------------------------------------------
(* The translation tables *)

AC_TO_CLIMATE_HVAC_MODE ==
    [AUTO      |-> "heat_cool",
     HEAT      |-> "heat",
     DRY       |-> "dry",
     FAN       |-> "fan_only",
     COOL      |-> "cool",
     AUTO_HEAT |-> "heat_cool",
     AUTO_COOL |-> "heat_cool"]

\* Variant: HEAT_COOL sent back as AUTO_HEAT.
CLIMATE_TO_AC_HVAC_MODE_auto_heat ==
    [heat_cool |-> "AUTO_HEAT",
     heat      |-> "HEAT",
     dry       |-> "DRY",
     fan_only  |-> "FAN",
     cool      |-> "COOL"]

CLIMATE_TO_AC_HVAC_MODE ==
    [heat_cool |-> "AUTO",
     heat      |-> "HEAT",
     dry       |-> "DRY",
     fan_only  |-> "FAN",
     cool      |-> "COOL"]

AC_TO_CLIMATE_HVAC_ACTION ==
    [AUTO      |-> "idle",
     HEAT      |-> "heating",
     DRY       |-> "drying",
     FAN       |-> "fan",
     COOL      |-> "cooling",
     AUTO_HEAT |-> "heating",
     AUTO_COOL |-> "cooling"]

AC_TO_CLIMATE_FAN_MODE ==
    [AUTO             |-> "auto",
     QUIET            |-> "quiet",
     LOW              |-> "low",
     MEDIUM           |-> "medium",
     HIGH             |-> "high",
     POWERFUL         |-> "powerful",
     TURBO            |-> "turbo",
     INTELLIGENT_AUTO |-> "intelligent"]

CLIMATE_TO_AC_FAN_MODE == Invert(AC_TO_CLIMATE_FAN_MODE)

ZONE_TO_CLIMATE_FAN_MODE ==
    [OFF   |-> "off",
     ON    |-> "on",
     TURBO |-> "turbo"]

CLIMATE_TO_ZONE_FAN_MODE == Invert(ZONE_TO_CLIMATE_FAN_MODE)

-----------------------------------------------------------------------------
(* The vendor library's objects.  A setter either completes, and the       *)
(* vendor state then shows the device's answer, or fails, and the failure  *)
(* propagates to the caller unchanged.                                     *)

\* The power states the device may report after a power control completes.
PowerAfter(control, power) ==
    CASE control = "TURN_OFF"     -> {"OFF", "OFF_AWAY"}
      [] control = "TURN_ON"      -> {"ON"}
      [] control = "SET_TO_AWAY"  -> {"OFF_AWAY", "ON_AWAY"}
      [] control = "SET_TO_SLEEP" -> {"SLEEP"}
      [] OTHER                    -> {power}

\* airtouch_ac.set_power(control)
airtouch_ac_set_power(control) ==
    /\ calls' = <<<<"set_power", control>>>>
    /\ \/ /\ result' = "ok"
          /\ ac_power_state' \in PowerAfter(control, ac_power_state)
          /\ UNCHANGED <<ac_mode, ac_fan_speed>>
       \/ /\ result' = "VendorError"
          /\ UNCHANGED acVars

\* airtouch_ac.set_mode(mode, power_on=power_on)
airtouch_ac_set_mode(mode, power_on) ==
    /\ calls' = <<<<"set_mode", mode, power_on>>>>
    /\ \/ /\ result' = "ok"
          /\ ac_mode' = mode
          /\ ac_power_state' \in
                 (IF power_on THEN PowerAfter("TURN_ON", ac_power_state)
                              ELSE {ac_power_state})
          /\ UNCHANGED ac_fan_speed
       \/ /\ result' = "VendorError"
          /\ UNCHANGED acVars

\* airtouch_ac.set_fan_speed(fan_speed)
airtouch_ac_set_fan_speed(fan_speed) ==
    /\ calls' = <<<<"set_fan_speed", fan_speed>>>>
    /\ \/ /\ result' = "ok"
          /\ ac_fan_speed' = fan_speed
          /\ UNCHANGED <<ac_power_state, ac_mode>>
       \/ /\ result' = "VendorError"
          /\ UNCHANGED acVars

\* airtouch_zone.set_power(power_state)
airtouch_zone_set_power(power_state) ==
    /\ calls' = <<<<"zone.set_power", power_state>>>>
    /\ \/ /\ result' = "ok"
          /\ zone_power_state' = power_state
       \/ /\ result' = "VendorError"
          /\ UNCHANGED zone_power_state

\* A failed dict lookup: the handler raises before any vendor call.
KeyError ==
    /\ result' = "KeyError"
    /\ calls' = <<>>

-----------------------------------------------------------------------------
(* AcClimateEntity *)

\* [HVACMode.OFF] + [_AC_TO_CLIMATE_HVAC_MODE[mode] for mode in supported_modes]
AcHvacModesAttr(modes) ==
    <<"off">> \o [i \in 1..Len(modes) |-> AC_TO_CLIMATE_HVAC_MODE[modes[i]]]

Ac_preset_modes == <<"none", "away", "sleep">>

Ac_fan_mode == AC_TO_CLIMATE_FAN_MODE[ac_fan_speed]

Ac_hvac_mode ==
    IF ac_power_state \in {"OFF", "OFF_AWAY"}
    THEN "off"
    ELSE AC_TO_CLIMATE_HVAC_MODE[ac_mode]

\* Variant: OFF_AWAY not treated as off.
Ac_hvac_action_off_only ==
    IF ac_power_state = "OFF"
    THEN "off"
    ELSE AC_TO_CLIMATE_HVAC_ACTION[ac_mode]

Ac_hvac_action ==
    IF ac_power_state \in {"OFF", "OFF_AWAY"}
    THEN "off"
    ELSE AC_TO_CLIMATE_HVAC_ACTION[ac_mode]

\* Variant: ON_AWAY not reported as away.
Ac_preset_mode_off_away_only ==
    CASE ac_power_state = "OFF_AWAY" -> "away"
      [] ac_power_state = "SLEEP"    -> "sleep"
      [] OTHER                       -> "none"

Ac_preset_mode ==
    CASE ac_power_state \in {"OFF_AWAY", "ON_AWAY"} -> "away"
      [] ac_power_state = "SLEEP"                   -> "sleep"
      [] OTHER                                      -> "none"

Ac_async_set_fan_mode(fan_mode) ==
    /\ op' = "Ac.async_set_fan_mode"
    /\ arg' = fan_mode
    /\ IF fan_mode \in DOMAIN CLIMATE_TO_AC_FAN_MODE
       THEN airtouch_ac_set_fan_speed(CLIMATE_TO_AC_FAN_MODE[fan_mode])
       ELSE KeyError /\ UNCHANGED acVars
    /\ UNCHANGED <<cfgVars, zone_power_state, lifeVars, discVars>>

\* Variant: OFF not special-cased, looked up in the reverse table like the rest.
Ac_async_set_hvac_mode_no_off(hvac_mode) ==
    /\ op' = "Ac.async_set_hvac_mode"
    /\ arg' = hvac_mode
    /\ IF hvac_mode \in DOMAIN CLIMATE_TO_AC_HVAC_MODE
       THEN airtouch_ac_set_mode(CLIMATE_TO_AC_HVAC_MODE[hvac_mode], TRUE)
       ELSE KeyError /\ UNCHANGED acVars
    /\ UNCHANGED <<cfgVars, zone_power_state, lifeVars, discVars>>

Ac_async_set_hvac_mode(hvac_mode) ==
    /\ op' = "Ac.async_set_hvac_mode"
    /\ arg' = hvac_mode
    /\ IF hvac_mode = "off"
       THEN airtouch_ac_set_power("TURN_OFF")
       ELSE IF hvac_mode \in DOMAIN CLIMATE_TO_AC_HVAC_MODE
            THEN airtouch_ac_set_mode(CLIMATE_TO_AC_HVAC_MODE[hvac_mode], TRUE)
            ELSE KeyError /\ UNCHANGED acVars
    /\ UNCHANGED <<cfgVars, zone_power_state, lifeVars, discVars>>

\* Variant: the NONE preset turns the unit on.
Ac_async_set_preset_mode_none_on(preset_mode) ==
    /\ op' = "Ac.async_set_preset_mode"
    /\ arg' = preset_mode
    /\ CASE preset_mode = "away"  -> airtouch_ac_set_power("SET_TO_AWAY")
         [] preset_mode = "sleep" -> airtouch_ac_set_power("SET_TO_SLEEP")
         [] preset_mode = "none"  -> airtouch_ac_set_power("TURN_ON")
         [] OTHER ->
                /\ result' = "ok"
                /\ calls' = <<>>
                /\ UNCHANGED acVars
    /\ UNCHANGED <<cfgVars, zone_power_state, lifeVars, discVars>>

Ac_async_set_preset_mode(preset_mode) ==
    /\ op' = "Ac.async_set_preset_mode"
    /\ arg' = preset_mode
    /\ CASE preset_mode = "away"  -> airtouch_ac_set_power("SET_TO_AWAY")
         [] preset_mode = "sleep" -> airtouch_ac_set_power("SET_TO_SLEEP")
         [] OTHER ->    \* logged as a warning, nothing else
                /\ result' = "ok"
                /\ calls' = <<>>
                /\ UNCHANGED acVars
    /\ UNCHANGED <<cfgVars, zone_power_state, lifeVars, discVars>>

-----------------------------------------------------------------------------
(* ZoneClimateEntity *)

\* The zone entity's bound method _async_on_ac_update, as a subscriber.
ZoneCallback == "ZoneClimateEntity._async_on_ac_update"

Zone_fan_modes == Range(ZONE_TO_CLIMATE_FAN_MODE)

\* Variant: the list computed once from the first supported mode.
Zone_hvac_modes_fixed == <<"off", AC_TO_CLIMATE_HVAC_MODE[supported_modes[1]]>>

Zone_hvac_modes == <<"off", AC_TO_CLIMATE_HVAC_MODE[ac_mode]>>

Zone_fan_mode == ZONE_TO_CLIMATE_FAN_MODE[zone_power_state]

\* Variant: OFF_AWAY of the parent not treated as off.
Zone_hvac_mode_off_only ==
    IF zone_power_state = "OFF"
    THEN "off"
    ELSE IF ac_power_state = "OFF"
         THEN "off"
         ELSE AC_TO_CLIMATE_HVAC_MODE[ac_mode]

Zone_hvac_mode ==
    IF zone_power_state = "OFF"
    THEN "off"
    ELSE IF ac_power_state \in {"OFF", "OFF_AWAY"}
         THEN "off"
         ELSE AC_TO_CLIMATE_HVAC_MODE[ac_mode]

\* The host calls the hook while it adds the entity; the entity counts as
\* attached once the hook has returned.  The base class hook runs first and
\* an exception of it ends the method there.
Zone_async_added_to_hass ==
    /\ ~attached
    /\ op' = "Zone.async_added_to_hass"
    /\ arg' = "-"
    /\ calls' = <<>>
    /\ \E super_ok \in BOOLEAN :
          IF super_ok
          THEN /\ ac_subscribers' = ac_subscribers \cup {ZoneCallback}
               /\ attached' = TRUE
               /\ result' = "ok"
          ELSE /\ result' = "HookError"
               /\ UNCHANGED <<ac_subscribers, attached>>
    /\ UNCHANGED <<acVars, cfgVars, zone_power_state, update_scheduled, discVars>>

\* The host marks the entity removed, then calls the hook.  The base class
\* hook runs first and an exception of it ends the method there.
Zone_async_will_remove_from_hass ==
    /\ attached
    /\ op' = "Zone.async_will_remove_from_hass"
    /\ arg' = "-"
    /\ calls' = <<>>
    /\ attached' = FALSE
    /\ \E super_ok \in BOOLEAN :
          IF super_ok
          THEN /\ ac_subscribers' = ac_subscribers \ {ZoneCallback}
               /\ result' = "ok"
          ELSE /\ result' = "HookError"
               /\ UNCHANGED ac_subscribers
    /\ UNCHANGED <<acVars, cfgVars, zone_power_state, update_scheduled, discVars>>

\* Variant: an unknown fan mode is dropped (dict.get) instead of raising.
Zone_async_set_fan_mode_tolerant(fan_mode) ==
    /\ op' = "Zone.async_set_fan_mode"
    /\ arg' = fan_mode
    /\ IF fan_mode \in DOMAIN CLIMATE_TO_ZONE_FAN_MODE
       THEN airtouch_zone_set_power(CLIMATE_TO_ZONE_FAN_MODE[fan_mode])
       ELSE /\ result' = "ok"
            /\ calls' = <<>>
            /\ UNCHANGED zone_power_state
    /\ UNCHANGED <<acVars, cfgVars, lifeVars, discVars>>

Zone_async_set_fan_mode(fan_mode) ==
    /\ op' = "Zone.async_set_fan_mode"
    /\ arg' = fan_mode
    /\ IF fan_mode \in DOMAIN CLIMATE_TO_ZONE_FAN_MODE
       THEN airtouch_zone_set_power(CLIMATE_TO_ZONE_FAN_MODE[fan_mode])
       ELSE KeyError /\ UNCHANGED zone_power_state
    /\ UNCHANGED <<acVars, cfgVars, lifeVars, discVars>>

Zone_async_set_hvac_mode(hvac_mode) ==
    /\ op' = "Zone.async_set_hvac_mode"
    /\ arg' = hvac_mode
    /\ airtouch_zone_set_power(IF hvac_mode = "off" THEN "OFF" ELSE "ON")
    /\ UNCHANGED <<acVars, cfgVars, lifeVars, discVars>>

\* _async_on_ac_update: async_schedule_update_ha_state()
Zone_async_on_ac_update == update_scheduled' = TRUE

-----------------------------------------------------------------------------
(* The environment: the device and the host platform *)

\* The device reports a new AC state (a wall panel, a schedule, another
\* client); the vendor library stores it and calls every subscriber.
AcStateUpdate ==
    /\ op' = "ac_state_update"
    /\ arg' = "-"
    /\ result' = "ok"
    /\ calls' = <<>>
    /\ \/ /\ ac_power_state' \in AcPowerStates
          /\ ac_mode' \in AcModes
          /\ UNCHANGED ac_fan_speed
       \/ /\ ac_fan_speed' \in AcFanSpeeds
          /\ UNCHANGED <<ac_power_state, ac_mode>>
    /\ IF ZoneCallback \in ac_subscribers
       THEN Zone_async_on_ac_update
       ELSE UNCHANGED update_scheduled
    /\ UNCHANGED <<cfgVars, zone_power_state, ac_subscribers, attached, discVars>>

\* The device reports a new zone power state.
ZoneStateUpdate ==
    /\ op' = "zone_state_update"
    /\ arg' = "-"
    /\ result' = "ok"
    /\ calls' = <<>>
    /\ zone_power_state' \in ZonePowerStates
    /\ UNCHANGED <<acVars, cfgVars, lifeVars, discVars>>

\* The host reads the zone entity's properties and publishes its state.
HostWriteZoneState ==
    /\ update_scheduled
    /\ op' = "write_ha_state"
    /\ arg' = Zone_hvac_mode
    /\ result' = "ok"
    /\ calls' = <<>>
    /\ update_scheduled' = FALSE
    /\ UNCHANGED <<acVars, cfgVars, zone_power_state, ac_subscribers, attached,
                   discVars>>

-----------------------------------------------------------------------------
(* Discovery.  api_objects is a list of AirTouch systems, a system is the  *)
(* list of its air conditioners, an air conditioner is the list of its     *)
(* zones and a zone is its has_temp_sensor flag.  An entity is named by    *)
(* the vendor object it wraps.                                             *)

MaxAirTouches == 2
MaxAcs == 3
MaxZones == 3

AcClimateEntity(i, j) == [kind |-> "ac", airtouch |-> i, ac |-> j, zone |-> 0]

ZoneClimateEntity(i, j, k) ==
    [kind |-> "zone", airtouch |-> i, ac |-> j, zone |-> k]

\* Variant: every zone gets an entity, sensor or not.
RECURSIVE ZoneEntities_unfiltered(_, _, _, _)
ZoneEntities_unfiltered(i, j, zones, k) ==
    IF k > Len(zones)
    THEN <<>>
    ELSE <<ZoneClimateEntity(i, j, k)>> \o ZoneEntities_unfiltered(i, j, zones, k + 1)

\* for airtouch_zone in (zone for zone in airtouch_ac.zones if zone.has_temp_sensor)
RECURSIVE ZoneEntities(_, _, _, _)
ZoneEntities(i, j, zones, k) ==
    IF k > Len(zones)
    THEN <<>>
    ELSE (IF zones[k] THEN <<ZoneClimateEntity(i, j, k)>> ELSE <<>>)
         \o ZoneEntities(i, j, zones, k + 1)

\* for airtouch_ac in airtouch.air_conditioners
RECURSIVE AcEntities(_, _, _)
AcEntities(i, acs, j) ==
    IF j > Len(acs)
    THEN <<>>
    ELSE <<AcClimateEntity(i, j)>> \o ZoneEntities(i, j, acs[j], 1)
         \o AcEntities(i, acs, j + 1)

\* for airtouch in api_objects
RECURSIVE DiscoveredEntities(_, _)
DiscoveredEntities(objs, i) ==
    IF i > Len(objs)
    THEN <<>>
    ELSE AcEntities(i, objs[i], 1) \o DiscoveredEntities(objs, i + 1)

\* The host sets the platform up once per config entry.
async_setup_entry ==
    /\ op # "async_setup_entry"
    /\ op' = "async_setup_entry"
    /\ arg' = "-"
    /\ result' = "ok"
    /\ calls' = <<>>
    /\ add_calls' = Append(add_calls, DiscoveredEntities(api_objects, 1))
    /\ UNCHANGED <<acVars, cfgVars, zone_power_state, lifeVars, api_objects>>

RECURSIVE SumLen(_)
SumLen(seqs) == IF seqs = <<>> THEN 0 ELSE Len(Head(seqs)) + SumLen(Tail(seqs))

RECURSIVE Flatten(_)
Flatten(seqs) == IF seqs = <<>> THEN <<>> ELSE Head(seqs) \o Flatten(Tail(seqs))

TotalAcs(objs) == SumLen(objs)
TotalZones(objs) == SumLen(Flatten(objs))

\* The vendor library's own discovery fills api_objects before the platform
\* is set up: a further system, a further air conditioner of the last system,
\* a further zone of the last air conditioner.
VendorFoundAirTouch ==
    /\ op = "init"
    /\ Len(api_objects) < MaxAirTouches
    /\ api_objects' = Append(api_objects, <<>>)
    /\ UNCHANGED <<acVars, cfgVars, zone_power_state, lifeVars, op, arg, result,
                   calls, add_calls>>

VendorFoundAc ==
    /\ op = "init"
    /\ api_objects # <<>>
    /\ TotalAcs(api_objects) < MaxAcs
    /\ api_objects' = [api_objects EXCEPT ![Len(api_objects)] = Append(@, <<>>)]
    /\ UNCHANGED <<acVars, cfgVars, zone_power_state, lifeVars, op, arg, result,
                   calls, add_calls>>

VendorFoundZone(has_temp_sensor) ==
    /\ op = "init"
    /\ api_objects # <<>>
    /\ api_objects[Len(api_objects)] # <<>>
    /\ TotalZones(api_objects) < MaxZones
    /\ api_objects' =
           [api_objects EXCEPT ![Len(api_objects)] =
               [@ EXCEPT ![Len(@)] = Append(@, has_temp_sensor)]]
    /\ UNCHANGED <<acVars, cfgVars, zone_power_state, lifeVars, op, arg, result,
                   calls, add_calls>>

-----------------------------------------------------------------------------
(* Specifications *)

\* supported_modes lists a device may report
SupportedModesChoices ==
    { <<"AUTO", "HEAT", "DRY", "FAN", "COOL">>,
      <<"COOL", "FAN", "DRY">>,
      <<"HEAT", "COOL", "AUTO", "AUTO_HEAT", "AUTO_COOL">> }

\* values the host may pass to the setters, advertised or not
PresetInputs == {"none", "away", "sleep", "eco", "boost"}
AcFanModeInputs == Range(AC_TO_CLIMATE_FAN_MODE) \cup {"off", "on", "focus"}
ZoneFanModeInputs == Range(ZONE_TO_CLIMATE_FAN_MODE) \cup {"auto", "low", "focus"}

InitHandlers ==
    /\ op = "init"
    /\ arg = "-"
    /\ result = "ok"
    /\ calls = <<>>

InitZoneEntity ==
    /\ ac_subscribers = {}
    /\ attached = FALSE
    /\ update_scheduled = FALSE

InitDiscovery ==
    /\ api_objects = <<>>
    /\ add_calls = <<>>

\* The AC adapter over its air conditioner.
Init ==
    /\ ac_power_state \in AcPowerStates
    /\ ac_mode \in AcModes
    /\ ac_fan_speed \in AcFanSpeeds
    /\ supported_modes \in SupportedModesChoices
    /\ attr_hvac_modes = AcHvacModesAttr(supported_modes)
    /\ zone_power_state = "OFF"
    /\ InitZoneEntity
    /\ InitHandlers
    /\ InitDiscovery

Next ==
    \/ \E fan_mode \in AcFanModeInputs : Ac_async_set_fan_mode(fan_mode)
    \/ \E hvac_mode \in HVACModes : Ac_async_set_hvac_mode(hvac_mode)
    \/ \E preset_mode \in PresetInputs : Ac_async_set_preset_mode(preset_mode)
    \/ AcStateUpdate

Spec == Init /\ [][Next]_vars

\* The zone adapter over its zone and its parent air conditioner.
InitZone ==
    /\ ac_power_state \in AcPowerStates
    /\ ac_mode \in AcModes
    /\ ac_fan_speed = "AUTO"
    /\ supported_modes = <<"AUTO", "HEAT", "DRY", "FAN", "COOL">>
    /\ attr_hvac_modes = AcHvacModesAttr(supported_modes)
    /\ zone_power_state \in ZonePowerStates
    /\ InitZoneEntity
    /\ InitHandlers
    /\ InitDiscovery

NextZone ==
    \/ Zone_async_added_to_hass
    \/ Zone_async_will_remove_from_hass
    \/ \E fan_mode \in ZoneFanModeInputs : Zone_async_set_fan_mode(fan_mode)
    \/ \E hvac_mode \in HVACModes : Zone_async_set_hvac_mode(hvac_mode)
    \/ AcStateUpdate
    \/ ZoneStateUpdate
    \/ HostWriteZoneState

SpecZone == InitZone /\ [][NextZone]_vars

\* The fan-mode setters of both adapters.
NextFan ==
    \/ \E fan_mode \in AcFanModeInputs : Ac_async_set_fan_mode(fan_mode)
    \/ \E fan_mode \in ZoneFanModeInputs : Zone_async_set_fan_mode(fan_mode)
    \/ AcStateUpdate
    \/ ZoneStateUpdate

SpecFan == InitZone /\ [][NextFan]_vars

\* Platform setup.
InitSetup ==
    /\ ac_power_state = "OFF"
    /\ ac_mode = "AUTO"
    /\ ac_fan_speed = "AUTO"
    /\ supported_modes = <<"AUTO", "HEAT", "DRY", "FAN", "COOL">>
    /\ attr_hvac_modes = AcHvacModesAttr(supported_modes)
    /\ zone_power_state = "OFF"
    /\ InitZoneEntity
    /\ InitHandlers
    /\ InitDiscovery

NextSetup ==
    \/ VendorFoundAirTouch
    \/ VendorFoundAc
    \/ \E has_temp_sensor \in BOOLEAN : VendorFoundZone(has_temp_sensor)
    \/ async_setup_entry

SpecSetup == InitSetup /\ [][NextSetup]_vars

-----------------------------------------------------------------------------
(* Properties *)

Subscribed == ZoneCallback \in ac_subscribers

\* C1 (SpecZone): the zone entity's callback is registered on the parent AC
\* if and only if the entity is attached, on every attach and detach path,
\* a detach whose base class hook fails included.
C1_SubscribedIffAttached == Subscribed <=> attached

\* C2 (SpecZone): the zone's hvac_mode is OFF when the zone is OFF, whatever
\* the parent AC's power state and mode; when the zone is ON or TURBO it is
\* OFF if the parent AC is OFF or OFF_AWAY and else the parent's mode through
\* the AC mode table.  The state the host publishes is that value.
C2_ZoneHvacMode ==
    /\ zone_power_state = "OFF" => Zone_hvac_mode = "off"
    /\ zone_power_state \in {"ON", "TURBO"} =>
          /\ ac_power_state \in {"OFF", "OFF_AWAY"} => Zone_hvac_mode = "off"
          /\ ac_power_state \notin {"OFF", "OFF_AWAY"} =>
                Zone_hvac_mode = AC_TO_CLIMATE_HVAC_MODE[ac_mode]
    /\ op = "write_ha_state" /\ zone_power_state # "OFF"
          /\ ac_power_state \in {"OFF", "OFF_AWAY"} => arg = "off"

C2_Witness ==
    /\ op = "write_ha_state"
    /\ zone_power_state = "TURBO"
    /\ ac_power_state = "OFF_AWAY"
    /\ ac_mode = "HEAT"
    /\ arg = "off"

\* C3 (Spec): when the AC's power state is OFF or OFF_AWAY, hvac_mode and
\* hvac_action are both OFF for every vendor mode; for every other power state
\* hvac_mode is the vendor mode through the mode table and hvac_action the
\* vendor mode through the action table.
C3_AcModeAndAction ==
    /\ ac_power_state \in {"OFF", "OFF_AWAY"} =>
          Ac_hvac_mode = "off" /\ Ac_hvac_action = "off"
    /\ ac_power_state \notin {"OFF", "OFF_AWAY"} =>
          /\ Ac_hvac_mode = AC_TO_CLIMATE_HVAC_MODE[ac_mode]
          /\ Ac_hvac_action = AC_TO_CLIMATE_HVAC_ACTION[ac_mode]

C3_Witness ==
    /\ op = "Ac.async_set_preset_mode"
    /\ result = "ok"
    /\ ac_power_state = "OFF_AWAY"
    /\ ac_mode = "COOL"
    /\ Ac_hvac_action = "off"

\* C4 (Spec): async_set_preset_mode issues exactly one set_power(SET_TO_AWAY)
\* for AWAY and exactly one set_power(SET_TO_SLEEP) for SLEEP; for any other
\* value, NONE included, it raises nothing, issues no vendor call and leaves
\* the AC's power state and mode as they were.
C4_SetPreset ==
    [][ op' = "Ac.async_set_preset_mode" =>
          /\ arg' = "away"  => calls' = << <<"set_power", "SET_TO_AWAY">> >>
          /\ arg' = "sleep" => calls' = << <<"set_power", "SET_TO_SLEEP">> >>
          /\ arg' \notin {"away", "sleep"} =>
                /\ calls' = <<>>
                /\ result' = "ok"
                /\ ac_power_state' = ac_power_state
                /\ ac_mode' = ac_mode ]_vars

C4_Witness ==
    /\ op = "Ac.async_set_preset_mode"
    /\ arg = "none"
    /\ arg \in Range(Ac_preset_modes)
    /\ calls = <<>>
    /\ result = "ok"

\* C5 (SpecFan): async_set_fan_mode with a string that is no value of the
\* adapter's fan-mode table raises the lookup error, issues no vendor call and
\* leaves the vendor state as it was, for the AC adapter and the zone adapter.
C5_UnknownFanMode ==
    [][ /\ op' = "Ac.async_set_fan_mode"
           /\ arg' \notin Range(AC_TO_CLIMATE_FAN_MODE) =>
              /\ result' = "KeyError"
              /\ calls' = <<>>
              /\ UNCHANGED <<acVars, zone_power_state>>
        /\ op' = "Zone.async_set_fan_mode"
           /\ arg' \notin Range(ZONE_TO_CLIMATE_FAN_MODE) =>
              /\ result' = "KeyError"
              /\ calls' = <<>>
              /\ UNCHANGED <<acVars, zone_power_state>> ]_vars

C5_Witness ==
    /\ op = "Zone.async_set_fan_mode"
    /\ arg = "auto"
    /\ result = "KeyError"
    /\ calls = <<>>

Count(seq, e) == Cardinality({n \in DOMAIN seq : seq[n] = e})

\* C6 (SpecSetup): async_setup_entry hands the host, in one call, exactly one
\* AC entity per vendor AC, exactly one zone entity per zone whose
\* has_temp_sensor is true, none for a zone without one, and nothing else.
C6_Discovery ==
    op = "async_setup_entry" =>
       /\ Len(add_calls) = 1
       /\ LET batch == add_calls[1] IN
          /\ \A i \in DOMAIN api_objects : \A j \in DOMAIN api_objects[i] :
                /\ Count(batch, AcClimateEntity(i, j)) = 1
                /\ \A k \in DOMAIN api_objects[i][j] :
                      Count(batch, ZoneClimateEntity(i, j, k)) =
                          (IF api_objects[i][j][k] THEN 1 ELSE 0)
          /\ \A n \in DOMAIN batch :
                /\ batch[n].airtouch \in DOMAIN api_objects
                /\ batch[n].ac \in DOMAIN api_objects[batch[n].airtouch]
                /\ batch[n].kind = "ac" => batch[n].zone = 0
                /\ batch[n].kind = "zone" =>
                      batch[n].zone \in
                          DOMAIN api_objects[batch[n].airtouch][batch[n].ac]

\* one AC with three zones of which two have a sensor
C6_Witness ==
    /\ op = "async_setup_entry"
    /\ api_objects = << << <<TRUE, FALSE, TRUE>> >> >>
    /\ Len(add_calls) = 1
    /\ Len(add_calls[1]) = 3

\* C7 (Spec): preset_mode depends on the AC's power state alone: AWAY for
\* OFF_AWAY and ON_AWAY, SLEEP for SLEEP, NONE for every other power state.
C7_PresetMode ==
    /\ ac_power_state \in {"OFF_AWAY", "ON_AWAY"} => Ac_preset_mode = "away"
    /\ ac_power_state = "SLEEP" => Ac_preset_mode = "sleep"
    /\ ac_power_state \in {"ON", "OFF"} => Ac_preset_mode = "none"

C7_Witness ==
    /\ op = "Ac.async_set_preset_mode"
    /\ arg = "away"
    /\ result = "ok"
    /\ ac_power_state = "ON_AWAY"
    /\ Ac_preset_mode = "away"

\* C8 (SpecZone): the zone's hvac_modes is the two-entry list of OFF followed
\* by the parent AC's current mode through the AC mode table, so [OFF, COOL]
\* for a parent in COOL, and the zone's hvac_mode is always one of its entries.
C8_ZoneHvacModes ==
    /\ Len(Zone_hvac_modes) = 2
    /\ Zone_hvac_modes[1] = "off"
    /\ Zone_hvac_modes[2] = AC_TO_CLIMATE_HVAC_MODE[ac_mode]
    /\ ac_mode = "COOL" => Zone_hvac_modes = <<"off", "cool">>
    /\ Zone_hvac_mode \in Range(Zone_hvac_modes)

C8_Witness ==
    /\ op = "ac_state_update"
    /\ ac_mode = "COOL"
    /\ ac_power_state = "ON"
    /\ zone_power_state = "ON"
    /\ Zone_hvac_mode = "cool"

\* C9 (Spec): for the AC's vendor mode m, forward(reverse(forward(m))) is
\* forward(m); reverse(forward(m)) is m for HEAT, DRY, FAN, COOL and AUTO, and
\* is AUTO for AUTO_HEAT and AUTO_COOL.
C9_ModeRoundTrip ==
    LET forward == AC_TO_CLIMATE_HVAC_MODE
        reverse == CLIMATE_TO_AC_HVAC_MODE
    IN  /\ forward[ac_mode] \in DOMAIN reverse
        /\ forward[reverse[forward[ac_mode]]] = forward[ac_mode]
        /\ ac_mode \in {"HEAT", "DRY", "FAN", "COOL", "AUTO"} =>
              reverse[forward[ac_mode]] = ac_mode
        /\ ac_mode \in {"AUTO_HEAT", "AUTO_COOL"} =>
              reverse[forward[ac_mode]] = "AUTO"

C9_Witness ==
    /\ ac_mode = "AUTO_COOL"
    /\ op = "ac_state_update"
    /\ CLIMATE_TO_AC_HVAC_MODE[AC_TO_CLIMATE_HVAC_MODE[ac_mode]] = "AUTO"

\* C10 (Spec): async_set_hvac_mode issues exactly one vendor call: for OFF a
\* set_power(TURN_OFF), which leaves the vendor mode as it was; for every other
\* mode of the entity's advertised hvac_modes a set_mode of the reverse-mapped
\* vendor mode with power_on=True, without a lookup error.
C10_SetHvacMode ==
    [][ op' = "Ac.async_set_hvac_mode" =>
          /\ arg' = "off" =>
                /\ calls' = << <<"set_power", "TURN_OFF">> >>
                /\ ac_mode' = ac_mode
          /\ arg' # "off" /\ arg' \in Range(attr_hvac_modes') =>
                /\ result' # "KeyError"
                /\ calls' =
                      << <<"set_mode", CLIMATE_TO_AC_HVAC_MODE[arg'], TRUE>> >> ]_vars

C10_Witness ==
    /\ op = "Ac.async_set_hvac_mode"
    /\ arg = "off"
    /\ result = "ok"
    /\ ac_power_state = "OFF"
    /\ ac_mode = "HEAT"
    /\ Ac_hvac_mode = "off"

====
